---- MODULE Spec2Model ----
(***************************************************************************)
(* Model of affectiva/api.py: the EmotionAPI client.  Every HTTP request   *)
(* the client issues is one step; the remote service and the local file    *)
(* system answer nondeterministically.  `log' holds the requests of the    *)
(* call in progress (or of the call that ended last), `fops' its file      *)
(* operations, `outcome' what the call returned or raised.                 *)
(***************************************************************************)
EXTENDS Integers, Sequences, FiniteSets, TLC

VARIABLES pc, auth, job_url, op, log, fops, outcome, fs, handles

vars == <<pc, auth, job_url, op, log, fops, outcome, fs, handles>>

----------------------------------------------------------------------------
(* Bounds of the model *)

MaxReps == 2          \* representations in one job document
MaxAnnotations == 3   \* items handed to add_annotations
MaxListed == 2        \* annotations in one listed collection
MaxOpen == 1          \* file objects left open that the model keeps track of

----------------------------------------------------------------------------
(* Constants of the source *)

ACCEPT_JSON == "application/json"
DEFAULT_ACCEPT == "*/*"     \* what goes out when no headers= is passed
EAAS_USER_ENV_VAR == "AFFECTIVA_API_USER"
EAAS_PASS_ENV_VAR == "AFFECTIVA_API_PASSWORD"
INDEX_SERVICE_URL == "https://index.affectiva.com"
JOB_SERVICE_KEY == "jobs"
SESSION_CONTENT_TYPE == "application/vnd.affectiva.session.v0+json"
CSV_CONTENT_TYPE == "application/csv"

----------------------------------------------------------------------------
(* Python values *)

None == [t |-> "none", v |-> ""]
Str(s) == [t |-> "str", v |-> s]

\* truth value of a credential argument: None and '' are falsy
Truthy(x) == x.t = "str" /\ x.v # ""

ExplicitValues == {None, Str(""), Str("u")}
EnvValues == {None, Str(""), Str("u")}      \* None: the variable is unset
Environs == [{EAAS_USER_ENV_VAR, EAAS_PASS_ENV_VAR} -> EnvValues]

NoAuth == <<None, None>>

----------------------------------------------------------------------------
(* Remote documents *)

RepTypes == {CSV_CONTENT_TYPE, SESSION_CONTENT_TYPE}
\* the content types asked of download_results: one no representation has
RequestedTypes == RepTypes \cup {"video/mp4"}
FileNames == {"f1", "f2"}
Nth(i) == CASE i = 1 -> "1" [] i = 2 -> "2" [] i = 3 -> "3" [] i = 4 -> "4" [] OTHER -> "n"

\* the i-th representation of a job: its own media URL; the first is saved
\* as f1 and the others as f2
Representation(ct, i) ==
    [content_type |-> ct, file_name |-> IF i = 1 THEN "f1" ELSE "f2",
     media |-> "media/" \o Nth(i)]
NoRep == [content_type |-> "", file_name |-> "", media |-> ""]

\* job_json['result']['representations'] of the job documents the service returns
JobDocs ==
    UNION {{[i \in 1..k |-> Representation(cts[i], i)] : cts \in [1..k -> RepTypes]} :
              k \in 0..MaxReps}

\* the representations handed to download_representation
Representations == {Representation(ct, i) : ct \in RepTypes, i \in 1..2}

\* annotations handed to add_annotations: the i-th has the value i
AnnotationInputs ==
    {[i \in 1..k |-> [source |-> "s1", key |-> "k1", value |-> Nth(i)]] :
        k \in 0..MaxAnnotations}

\* annotation collections the service lists; every annotation has its own
\* self URL, and its (source, key) is one of these
SourceKeys == {<<"s1", "k1">>, <<"s1", "k2">>, <<"s2", "k1">>}
Listings ==
    UNION {{[i \in 1..k |-> [source |-> sk[i][1], key |-> sk[i][2],
                             self |-> "annotation/" \o Nth(i)]] :
               sk \in [1..k -> SourceKeys]} : k \in 0..MaxListed}

----------------------------------------------------------------------------
(* HTTP *)

ConnError == [kind |-> "error", status |-> 0, json |-> FALSE, body |-> <<>>]

\* what a request can come back with: no response at all; 200 with a body
\* that parses as JSON (jsonBodies) or does not (rawBodies); 304, which has
\* no JSON body; an error status
Responses(jsonBodies, rawBodies) ==
    {ConnError}
    \cup [kind : {"resp"}, status : {200}, json : {TRUE}, body : jsonBodies]
    \cup [kind : {"resp"}, status : {200, 304}, json : {FALSE}, body : rawBodies]
    \cup [kind : {"resp"}, status : {404, 500}, json : {FALSE}, body : {<<>>}]

SimpleResponses == Responses({<<"doc">>}, {<<>>})
MediaResponses == Responses({<<"m1">>, <<"m2">>}, {<<"csv">>})
DownloadResponses == Responses({}, {<<"csv">>})

Request(method, url, a, accept, multipart, data, resp) ==
    [method |-> method, url |-> url, auth |-> a, accept |-> accept,
     multipart |-> multipart, data |-> data, resp |-> resp]

NoOutcome == [kind |-> "none", error |-> "", status |-> 0, value |-> <<>>,
              path |-> "", listing |-> <<>>, requested |-> ""]
Returned(v) == [NoOutcome EXCEPT !.kind = "return", !.value = v]
ReturnedPath(p) == [NoOutcome EXCEPT !.kind = "return", !.path = p]
Raised(e, s) == [NoOutcome EXCEPT !.kind = "raise", !.error = e, !.status = s]
NoneValue == <<"None">>

\* Response.raise_for_status() raises for the client and server error classes
raise_for_status(resp) == resp.status >= 400 /\ resp.status < 600

\* json_result without the raise_for_status() call
json_result_unchecked(resp) ==
    IF resp.kind = "error" THEN Raised("ConnectionError", 0)
    ELSE IF ~resp.json THEN Raised("JSONDecodeError", 0)
    ELSE Returned(resp.body)

\* resp = requests.<verb>(...); resp.raise_for_status(); return resp.json()
json_result(resp) ==
    IF resp.kind = "error" THEN Raised("ConnectionError", 0)
    ELSE IF raise_for_status(resp) THEN Raised("HTTPError", resp.status)
    ELSE IF ~resp.json THEN Raised("JSONDecodeError", 0)
    ELSE Returned(resp.body)

\* resp = requests.<verb>(...); resp.raise_for_status()
status_result(resp) ==
    IF resp.kind = "error" THEN Raised("ConnectionError", 0)
    ELSE IF raise_for_status(resp) THEN Raised("HTTPError", resp.status)
    ELSE Returned(NoneValue)

\* AuthRequest without the auth= argument
AuthRequest_no_auth(method, url, accept, multipart, data, resp) ==
    Request(method, url, NoAuth, accept, multipart, data, resp)

\* a request made with auth=self._auth
AuthRequest(method, url, accept, multipart, data, resp) ==
    Request(method, url, auth, accept, multipart, data, resp)

----------------------------------------------------------------------------
(* Local files *)

MEDIA_PATH == "video.mp4"
Absent == [exists |-> FALSE, data |-> <<>>]
File(d) == [exists |-> TRUE, data |-> d]

\* open_wb with mode 'ab': a file that is there keeps its content
open_ab(f, name) == IF f[name].exists THEN f ELSE [f EXCEPT ![name] = File(<<>>)]

\* open(local_path, 'wb'): create the file, or truncate the one that is there
open_wb(f, name) == [f EXCEPT ![name] = File(<<>>)]

FileOp(ev, name) == [ev |-> ev, file |-> name]

----------------------------------------------------------------------------
(* The frame of the call in progress *)

NewFrame(name) ==
    [name |-> name, ctype |-> "", source |-> "", key |-> "", items |-> <<>>,
     idx |-> 0, rep |-> NoRep, metrics |-> <<>>]

Init ==
    /\ pc = "new"
    /\ auth = NoAuth
    /\ job_url = ""
    /\ op = NewFrame("")
    /\ log = <<>>
    /\ fops = <<>>
    /\ outcome = NoOutcome
    /\ fs = [n \in FileNames |-> IF n = "f1" THEN File(<<"old">>) ELSE Absent]
    /\ handles = [scoped |-> 0, leaked |-> 0]

----------------------------------------------------------------------------
(* __init__ and _get_job_service_url *)

resolve(arg, environ, var) == IF Truthy(arg) THEN arg ELSE environ[var]

\* the index answers with a document that has [version]['jobs'] or lacks it
IndexResponses == Responses({<<"jobs_v1">>, <<>>}, {<<>>})

get_job_service_url(resp) ==
    IF resp.kind = "error" THEN Raised("ConnectionError", 0)
    ELSE IF ~resp.json THEN Raised("JSONDecodeError", 0)
    ELSE IF resp.body = <<>> THEN Raised("KeyError", 0)
    ELSE Returned(resp.body)

EmotionAPI_init ==
    /\ pc = "new"
    /\ \E user \in ExplicitValues, password \in ExplicitValues,
          environ \in Environs, resp \in IndexResponses :
         LET u == resolve(user, environ, EAAS_USER_ENV_VAR)
             p == resolve(password, environ, EAAS_PASS_ENV_VAR)
             r == get_job_service_url(resp)
         IN  /\ auth' = <<u, p>>
             /\ IF u = None \/ p = None
                THEN /\ outcome' = Raised("ValueError", 0)
                     /\ log' = <<>>
                     /\ job_url' = job_url
                     /\ pc' = "failed"
                ELSE /\ log' = <<Request("GET", INDEX_SERVICE_URL, NoAuth,
                                         ACCEPT_JSON, FALSE, <<>>, resp)>>
                     /\ outcome' = IF r.kind = "raise" THEN r ELSE Returned(NoneValue)
                     /\ job_url' = IF r.kind = "raise" THEN job_url ELSE r.value[1]
                     /\ pc' = IF r.kind = "raise" THEN "failed" ELSE "idle"
    /\ op' = NewFrame("__init__")
    /\ UNCHANGED <<fops, fs, handles>>

----------------------------------------------------------------------------
(* The operations that are one request *)

JOB_URL == "job1"
ENTRY == [annotations |-> "job1/annotations", representation_self |-> "job1/representations"]
REPRESENTATION_SELF == "job1/representations/1"

\* one authenticated request whose JSON body is the result
SimpleCall(name, method, url, data) ==
    /\ pc = "idle"
    /\ \E resp \in SimpleResponses :
         /\ log' = <<AuthRequest(method, url, ACCEPT_JSON, FALSE, data, resp)>>
         /\ outcome' = json_result(resp)
    /\ op' = NewFrame(name)
    /\ fops' = <<>>
    /\ UNCHANGED <<pc, auth, job_url, fs, handles>>

query_job == SimpleCall("query_job", "GET", JOB_URL, <<>>)

update_job ==
    \E job_name \in {None, Str("multiface")} :
        SimpleCall("update_job", "PATCH", JOB_URL,
                   IF job_name # None THEN <<<<"entry_job[name]", job_name.v>>>> ELSE <<>>)

jobs == SimpleCall("jobs", "GET", job_url, <<>>)

AnnotationData(a) ==
    << <<"annotation[source]", a.source>>, <<"annotation[key]", a.key>>,
       <<"annotation[value]", a.value>> >>

add_annotation ==
    \E value \in {"1", "2"} :
        SimpleCall("add_annotation", "POST", ENTRY.annotations,
                   AnnotationData([source |-> "s1", key |-> "k1", value |-> value]))

----------------------------------------------------------------------------
(* create_job, add_representation, update_representation *)

\* open(media_path, 'rb') at the start of an upload
OpenMedia(name, next) ==
    /\ pc = "idle"
    /\ op' = NewFrame(name)
    /\ log' = <<>>
    /\ \E readable \in BOOLEAN :
         IF readable
         THEN /\ handles' = [handles EXCEPT !.scoped = @ + 1]
              /\ fops' = <<FileOp("open_rb", MEDIA_PATH)>>
              /\ outcome' = NoOutcome
              /\ pc' = next
         ELSE /\ handles' = handles
              /\ fops' = <<>>
              /\ outcome' = Raised("IOError", 0)
              /\ pc' = "idle"
    /\ UNCHANGED <<auth, job_url, fs>>

create_job_open == OpenMedia("create_job", "create_job_post")

\* the request inside the with block; leaving the block closes the file
create_job_post ==
    /\ pc = "create_job_post"
    /\ \E resp \in SimpleResponses :
         /\ log' = Append(log, AuthRequest("POST", job_url, ACCEPT_JSON, TRUE,
                               << <<"entry_job[name]", "multiface">>,
                                  <<"entry_job[input]", MEDIA_PATH>> >>, resp))
         /\ outcome' = json_result(resp)
    /\ handles' = [handles EXCEPT !.scoped = @ - 1]
    /\ fops' = Append(fops, FileOp("close", MEDIA_PATH))
    /\ pc' = "idle"
    /\ UNCHANGED <<auth, job_url, op, fs>>

\* the file object of open(media_path, 'rb') is never closed by the method:
\* when the frame ends it is still open, and only the runtime may close it
unclosed(h) == [h EXCEPT !.scoped = @ - 1, !.leaked = @ + 1]

add_representation_open ==
    /\ handles.leaked < MaxOpen
    /\ OpenMedia("add_representation", "add_representation_post")

add_representation_post ==
    /\ pc = "add_representation_post"
    /\ \E resp \in SimpleResponses :
         /\ log' = Append(log, AuthRequest("POST", ENTRY.representation_self, ACCEPT_JSON,
                               TRUE, << <<"media", MEDIA_PATH>> >>, resp))
         /\ outcome' = json_result(resp)
    /\ handles' = unclosed(handles)
    /\ pc' = "idle"
    /\ UNCHANGED <<auth, job_url, op, fs, fops>>

update_representation_open ==
    /\ handles.leaked < MaxOpen
    /\ OpenMedia("update_representation", "update_representation_put")

update_representation_put ==
    /\ pc = "update_representation_put"
    /\ \E resp \in SimpleResponses :
         /\ log' = Append(log, AuthRequest("PUT", REPRESENTATION_SELF, ACCEPT_JSON,
                               TRUE, << <<"media", MEDIA_PATH>> >>, resp))
         /\ outcome' = status_result(resp)
    /\ handles' = unclosed(handles)
    /\ pc' = "idle"
    /\ UNCHANGED <<auth, job_url, op, fs, fops>>

\* the runtime finalizes a file object nothing refers to any more
finalize_file ==
    /\ handles.leaked > 0
    /\ handles' = [handles EXCEPT !.leaked = @ - 1]
    /\ UNCHANGED <<pc, auth, job_url, op, log, fops, outcome, fs>>

----------------------------------------------------------------------------
(* download_representation, download_results *)

\* a direct call of download_representation
download_representation ==
    /\ pc = "idle"
    /\ \E rep \in Representations :
         op' = [NewFrame("download_representation") EXCEPT !.rep = rep]
    /\ log' = <<>>
    /\ fops' = <<>>
    /\ outcome' = NoOutcome
    /\ pc' = "download_open"
    /\ UNCHANGED <<auth, job_url, fs, handles>>

\* first_match without the return inside the loop: the last match wins
RECURSIVE last_match(_, _, _)
last_match(reps, ctype, i) ==
    IF i > Len(reps) THEN 0
    ELSE LET rest == last_match(reps, ctype, i + 1)
         IN  IF rest # 0 THEN rest
             ELSE IF reps[i].content_type = ctype THEN i ELSE 0

\* index of the first representation of reps with this content type, 0 if none
RECURSIVE first_match(_, _, _)
first_match(reps, ctype, i) ==
    IF i > Len(reps) THEN 0
    ELSE IF reps[i].content_type = ctype THEN i
    ELSE first_match(reps, ctype, i + 1)

\* [x['content_type'] for x in all_representations_json]
all_content_types(reps) == [i \in 1..Len(reps) |-> reps[i].content_type]

download_results ==
    /\ pc = "idle"
    /\ \E content_type \in RequestedTypes, resp \in Responses(JobDocs, {<<>>}) :
         LET r == json_result(resp)
             m == first_match(r.value, content_type, 1)
             frame == [NewFrame("download_results") EXCEPT !.ctype = content_type]
         IN  /\ log' = <<AuthRequest("GET", JOB_URL, ACCEPT_JSON, FALSE, <<>>, resp)>>
             /\ IF r.kind = "raise"
                THEN /\ outcome' = r
                     /\ op' = frame
                     /\ pc' = "idle"
                ELSE IF m = 0
                THEN /\ outcome' = [Raised("ValueError", 0) EXCEPT
                                       !.listing = all_content_types(r.value),
                                       !.requested = content_type]
                     /\ op' = [frame EXCEPT !.items = r.value]
                     /\ pc' = "idle"
                ELSE /\ outcome' = NoOutcome
                     /\ op' = [frame EXCEPT !.items = r.value, !.rep = r.value[m]]
                     /\ pc' = "download_open"
    /\ fops' = <<>>
    /\ UNCHANGED <<auth, job_url, fs, handles>>

\* with open(local_path, 'wb') as fout:
download_representation_open ==
    /\ pc = "download_open"
    /\ \E writable \in BOOLEAN :
         IF writable
         THEN /\ fs' = open_wb(fs, op.rep.file_name)
              /\ fops' = Append(fops, FileOp("open_wb", op.rep.file_name))
              /\ handles' = [handles EXCEPT !.scoped = @ + 1]
              /\ outcome' = NoOutcome
              /\ pc' = "download_get"
         ELSE /\ outcome' = Raised("IOError", 0)
              /\ pc' = "idle"
              /\ UNCHANGED <<fs, fops, handles>>
    /\ UNCHANGED <<auth, job_url, op, log>>

\* the body of the with block; leaving it closes the file
download_representation_get ==
    /\ pc = "download_get"
    /\ \E resp \in DownloadResponses :
         LET r == status_result(resp)
             name == op.rep.file_name
         IN  /\ log' = Append(log, AuthRequest("GET", op.rep.media, DEFAULT_ACCEPT,
                                               FALSE, <<>>, resp))
             /\ IF r.kind = "raise"
                THEN /\ outcome' = r
                     /\ fs' = fs
                     /\ fops' = Append(fops, FileOp("close", name))
                ELSE /\ outcome' = ReturnedPath(name)
                     /\ fs' = [fs EXCEPT ![name] = File(resp.body)]
                     /\ fops' = fops \o <<FileOp("write", name), FileOp("close", name)>>
    /\ handles' = [handles EXCEPT !.scoped = @ - 1]
    /\ pc' = "idle"
    /\ UNCHANGED <<auth, job_url, op>>

----------------------------------------------------------------------------
(* results *)

\* is_session_metrics with the content type of download_results' default
is_csv(representation) == representation.content_type = CSV_CONTENT_TYPE

is_session_metrics(representation) ==
    representation.content_type = SESSION_CONTENT_TYPE

\* metrics = []; job_json = self.query_job(job_url)
results ==
    /\ pc = "idle"
    /\ \E resp \in Responses(JobDocs, {<<>>}) :
         LET r == json_result(resp)
         IN  /\ log' = <<AuthRequest("GET", JOB_URL, ACCEPT_JSON, FALSE, <<>>, resp)>>
             /\ IF r.kind = "raise"
                THEN /\ outcome' = r
                     /\ op' = NewFrame("results")
                     /\ pc' = "idle"
                ELSE /\ outcome' = NoOutcome
                     /\ op' = [NewFrame("results") EXCEPT !.items = r.value, !.idx = 1]
                     /\ pc' = "results_loop"
    /\ fops' = <<>>
    /\ UNCHANGED <<auth, job_url, fs, handles>>

\* one turn of the for loop, or the return after it
results_loop ==
    /\ pc = "results_loop"
    /\ IF op.idx > Len(op.items)
       THEN /\ outcome' = Returned(op.metrics)
            /\ pc' = "idle"
            /\ UNCHANGED <<op, log>>
       ELSE IF is_session_metrics(op.items[op.idx])
       THEN \E resp \in MediaResponses :
              LET r == json_result(resp)
              IN  /\ log' = Append(log, AuthRequest("GET", op.items[op.idx].media,
                                                    DEFAULT_ACCEPT, FALSE, <<>>, resp))
                  /\ IF r.kind = "raise"
                     THEN /\ outcome' = r
                          /\ pc' = "idle"
                          /\ op' = op
                     ELSE /\ outcome' = outcome
                          /\ pc' = pc
                          /\ op' = [op EXCEPT !.metrics = r.value, !.idx = @ + 1]
       ELSE /\ op' = [op EXCEPT !.idx = @ + 1]
            /\ UNCHANGED <<pc, log, outcome>>
    /\ UNCHANGED <<auth, job_url, fops, fs, handles>>

----------------------------------------------------------------------------
(* add_annotations, delete_annotation *)

add_annotations ==
    /\ pc = "idle"
    /\ \E annotations \in AnnotationInputs :
         op' = [NewFrame("add_annotations") EXCEPT !.items = annotations, !.idx = 1]
    /\ log' = <<>>
    /\ fops' = <<>>
    /\ outcome' = NoOutcome
    /\ pc' = "add_annotations_loop"
    /\ UNCHANGED <<auth, job_url, fs, handles>>

\* after_add with the error swallowed: the loop goes on with the next item
after_add_swallow(r, idx) ==
    [pc |-> "add_annotations_loop", outcome |-> NoOutcome, idx |-> idx + 1]

\* after_add with a retry: a failed item is posted again
after_add_retry(r, idx) ==
    IF r.kind = "raise" THEN [pc |-> "add_annotations_loop", outcome |-> NoOutcome, idx |-> idx]
    ELSE [pc |-> "add_annotations_loop", outcome |-> NoOutcome, idx |-> idx + 1]

\* where the loop of add_annotations goes after the add_annotation of item idx
after_add(r, idx) ==
    IF r.kind = "raise" THEN [pc |-> "idle", outcome |-> r, idx |-> idx]
    ELSE [pc |-> "add_annotations_loop", outcome |-> NoOutcome, idx |-> idx + 1]

add_annotations_loop ==
    /\ pc = "add_annotations_loop"
    /\ IF op.idx > Len(op.items)
       THEN /\ outcome' = Returned(NoneValue)
            /\ pc' = "idle"
            /\ UNCHANGED <<op, log>>
       ELSE \E resp \in SimpleResponses :
              LET n == after_add(json_result(resp), op.idx)
              IN  /\ log' = Append(log, AuthRequest("POST", ENTRY.annotations, ACCEPT_JSON,
                                        FALSE, AnnotationData(op.items[op.idx]), resp))
                  /\ outcome' = n.outcome
                  /\ pc' = n.pc
                  /\ op' = [op EXCEPT !.idx = n.idx]
    /\ UNCHANGED <<auth, job_url, fops, fs, handles>>

\* annotations = self.query_job(entry['annotations'])
delete_annotation ==
    /\ pc = "idle"
    /\ \E source \in {"s1"}, key \in {"k1"}, resp \in Responses(Listings, {<<>>}) :
         LET r == json_result(resp)
             frame == [NewFrame("delete_annotation") EXCEPT !.source = source, !.key = key]
         IN  /\ log' = <<AuthRequest("GET", ENTRY.annotations, ACCEPT_JSON, FALSE, <<>>, resp)>>
             /\ IF r.kind = "raise"
                THEN /\ outcome' = r
                     /\ op' = frame
                     /\ pc' = "idle"
                ELSE /\ outcome' = NoOutcome
                     /\ op' = [frame EXCEPT !.items = r.value, !.idx = 1]
                     /\ pc' = "delete_annotation_loop"
    /\ fops' = <<>>
    /\ UNCHANGED <<auth, job_url, fs, handles>>

\* annotation_matches with `or' for `and'
annotation_matches_either(a, source, key) == a.source = source \/ a.key = key

\* if a['source'] == source and a['key'] == key
annotation_matches(a, source, key) == a.source = source /\ a.key = key

delete_annotation_loop ==
    /\ pc = "delete_annotation_loop"
    /\ IF op.idx > Len(op.items)
       THEN /\ outcome' = Returned(NoneValue)
            /\ pc' = "idle"
            /\ UNCHANGED <<op, log>>
       ELSE IF annotation_matches(op.items[op.idx], op.source, op.key)
       THEN \E resp \in SimpleResponses :
              LET r == status_result(resp)
              IN  /\ log' = Append(log, AuthRequest("DELETE", op.items[op.idx].self,
                                                    ACCEPT_JSON, FALSE, <<>>, resp))
                  /\ IF r.kind = "raise"
                     THEN /\ outcome' = r
                          /\ pc' = "idle"
                          /\ op' = op
                     ELSE /\ outcome' = outcome
                          /\ pc' = pc
                          /\ op' = [op EXCEPT !.idx = @ + 1]
       ELSE /\ op' = [op EXCEPT !.idx = @ + 1]
            /\ UNCHANGED <<pc, log, outcome>>
    /\ UNCHANGED <<auth, job_url, fops, fs, handles>>

----------------------------------------------------------------------------

Next ==
    \/ EmotionAPI_init
    \/ create_job_open
    \/ create_job_post
    \/ query_job
    \/ update_job
    \/ jobs
    \/ download_representation
    \/ download_representation_open
    \/ download_representation_get
    \/ download_results
    \/ results
    \/ results_loop
    \/ add_annotation
    \/ add_annotations
    \/ add_annotations_loop
    \/ delete_annotation
    \/ delete_annotation_loop
    \/ add_representation_open
    \/ add_representation_post
    \/ update_representation_open
    \/ update_representation_put
    \/ finalize_file

Spec == Init /\ [][Next]_vars

----------------------------------------------------------------------------
(* Properties *)

NonEmptyString(x) == x.t = "str" /\ x.v # ""
Called == op.name \notin {"", "__init__"}
ErrorStatus(resp) == resp.kind = "resp" /\ resp.status \in 400..599
Non2xx(resp) == resp.kind = "resp" /\ resp.status \notin 200..299
\* the request was answered, passed the status check and its body parsed
ParsedOk(resp) == resp.kind = "resp" /\ resp.status \notin 400..599 /\ resp.json
LastResp == log[Len(log)].resp
HttpStatusError(status) ==
    outcome.kind = "raise" /\ outcome.error = "HTTPError" /\ outcome.status = status

\* the positions of doc, in order, whose content type is ct
RECURSIVE PositionsOf(_, _, _)
PositionsOf(doc, ct, i) ==
    IF i > Len(doc) THEN <<>>
    ELSE (IF doc[i].content_type = ct THEN <<i>> ELSE <<>>) \o PositionsOf(doc, ct, i + 1)

\* the self URLs, in order, of the listed annotations with this source and key
RECURSIVE SelfsOf(_, _, _, _)
SelfsOf(doc, source, key, i) ==
    IF i > Len(doc) THEN <<>>
    ELSE (IF doc[i].source = source /\ doc[i].key = key THEN <<doc[i].self>> ELSE <<>>)
         \o SelfsOf(doc, source, key, i + 1)

UrlsFrom(first) == [j \in 1..(Len(log) - first + 1) |-> log[j + first - 1].url]

\* C1 (as stated): once the constructor has run, a resolved username or
\* password that is absent or not a non-empty string means construction
\* failed (stated without the kind of the error, so that only a client that
\* was constructed refutes it).
C1_EmptyCredentialsRejected ==
    (pc # "new" /\ (~NonEmptyString(auth[1]) \/ ~NonEmptyString(auth[2])))
        => pc = "failed"

SingleRequestOps ==
    {"create_job", "query_job", "update_job", "jobs", "add_annotation",
     "add_representation", "update_representation", "download_representation"}

\* C2 (as stated): when one of the eight operations has ended and the
\* response to its request had a status outside 200-299, it raised an HTTP
\* status error carrying that status.
C2_Non2xxRaises ==
    (pc = "idle" /\ op.name \in SingleRequestOps /\ log # <<>> /\ Non2xx(LastResp))
        => HttpStatusError(LastResp.status)

\* C2 (amended): when one of the eight operations has ended and the response
\* to its request had a status in 400-599, it raised an HTTP status error
\* carrying that status and returned nothing.
C2_ErrorStatusRaises ==
    (pc = "idle" /\ op.name \in SingleRequestOps /\ log # <<>> /\ ErrorStatus(LastResp))
        => HttpStatusError(LastResp.status)

C2_Witness ==
    /\ pc = "idle"
    /\ op.name = "download_representation"
    /\ log # <<>>
    /\ LastResp.status = 404
    /\ HttpStatusError(404)

\* C3: in download_results after a successful query, a job without a
\* representation of the requested content type makes the call raise the
\* not-found error that lists the content types of the document in order,
\* with no further request and no file operation; otherwise the only further
\* request is a GET of the first matching representation's media, and only
\* its file is touched.
C3_DownloadResults ==
    (op.name = "download_results" /\ log # <<>> /\ ParsedOk(log[1].resp)) =>
        LET doc == log[1].resp.body
            hits == PositionsOf(doc, op.ctype, 1)
        IN  IF hits = <<>>
            THEN /\ pc = "idle"
                 /\ outcome.kind = "raise"
                 /\ outcome.error = "ValueError"
                 /\ outcome.requested = op.ctype
                 /\ outcome.listing = [i \in 1..Len(doc) |-> doc[i].content_type]
                 /\ Len(log) = 1
                 /\ fops = <<>>
            ELSE /\ Len(log) <= 2
                 /\ Len(log) = 2 =>
                        (log[2].method = "GET" /\ log[2].url = doc[hits[1]].media)
                 /\ \A i \in 1..Len(fops) : fops[i].file = doc[hits[1]].file_name
                 /\ (pc = "idle" /\ outcome.kind = "return")
                        => outcome.path = doc[hits[1]].file_name

C3_Witness ==
    /\ pc = "idle"
    /\ op.name = "download_results"
    /\ outcome.error = "ValueError"
    /\ Len(outcome.listing) = 2
    /\ outcome.listing[1] # outcome.listing[2]
    /\ Len(log) = 1

C3_WitnessFirstOfTwo ==
    /\ pc = "idle"
    /\ op.name = "download_results"
    /\ outcome.kind = "return"
    /\ Len(PositionsOf(log[1].resp.body, op.ctype, 1)) = 2

\* C4 (as stated): when results has returned after a successful query, then
\* with no session-metrics representation it returned the empty sequence
\* after the one request, and for a session-metrics representation its media
\* was fetched and the body of that response is what was returned.
C4_ReturnsBodyOfTheMatch ==
    (pc = "idle" /\ op.name = "results" /\ log # <<>> /\ ParsedOk(log[1].resp)
        /\ outcome.kind = "return") =>
        LET doc == log[1].resp.body
            hits == PositionsOf(doc, SESSION_CONTENT_TYPE, 1)
        IN  /\ hits = <<>> => (outcome.value = <<>> /\ Len(log) = 1)
            /\ \A h \in 1..Len(hits) :
                 \E j \in 2..Len(log) :
                    /\ log[j].url = doc[hits[h]].media
                    /\ outcome.value = log[j].resp.body

\* C4 (amended): in results after a successful query, the further requests
\* are GETs of the media of the session-metrics representations, in list
\* order; with none the call returns the empty sequence and never raises; it
\* raises only when the last of these GETs failed; when it returns every one
\* of them was fetched and the value is the body of the last response.
C4_ReturnsBodyOfLastMatch ==
    (op.name = "results" /\ log # <<>> /\ ParsedOk(log[1].resp)) =>
        LET doc == log[1].resp.body
            hits == PositionsOf(doc, SESSION_CONTENT_TYPE, 1)
        IN  /\ Len(log) - 1 <= Len(hits)
            /\ \A j \in 2..Len(log) :
                 log[j].method = "GET" /\ log[j].url = doc[hits[j - 1]].media
            /\ \A j \in 2..(Len(log) - 1) : ParsedOk(log[j].resp)
            /\ (pc = "idle" /\ outcome.kind = "raise")
                  => (Len(log) >= 2 /\ ~ParsedOk(LastResp))
            /\ (pc = "idle" /\ outcome.kind = "return")
                  => /\ Len(log) - 1 = Len(hits)
                     /\ outcome.value = IF hits = <<>> THEN <<>> ELSE LastResp.body

C4_Witness ==
    /\ pc = "idle"
    /\ op.name = "results"
    /\ outcome.kind = "return"
    /\ Len(log) = 3
    /\ log[2].resp.body # log[3].resp.body
    /\ outcome.value = log[3].resp.body

\* C5: when delete_annotation has ended, its listing was answered 2xx with a
\* JSON body and every DELETE was answered 2xx, then it returned, and its
\* DELETEs went to the self URLs of exactly the listed annotations whose
\* source and key both equal the arguments, one each, in list order.
C5_DeletesAllMatches ==
    (pc = "idle" /\ op.name = "delete_annotation" /\ log # <<>>
        /\ log[1].resp.kind = "resp" /\ log[1].resp.status \in 200..299 /\ log[1].resp.json
        /\ \A j \in 2..Len(log) :
              log[j].resp.kind = "resp" /\ log[j].resp.status \in 200..299) =>
        /\ outcome.kind = "return"
        /\ \A j \in 2..Len(log) : log[j].method = "DELETE"
        /\ UrlsFrom(2) = SelfsOf(log[1].resp.body, op.source, op.key, 1)

C5_Witness ==
    /\ pc = "idle"
    /\ op.name = "delete_annotation"
    /\ outcome.kind = "return"
    /\ Len(log) = 2
    /\ Len(log[1].resp.body) = 2
    /\ log[2].url = "annotation/2"

PostFails(resp) == resp.kind = "error" \/ ErrorStatus(resp)

\* C6: in add_annotations the j-th request is the POST of the j-th item, so
\* no item is posted twice and nothing but POSTs is sent; a failed POST is the
\* last request of the call, which has then ended by raising that error.
C6_AddAnnotationsStopsAtFailure ==
    op.name = "add_annotations" =>
        /\ Len(log) <= Len(op.items)
        /\ \A j \in 1..Len(log) :
             /\ log[j].method = "POST"
             /\ log[j].url = ENTRY.annotations
             /\ log[j].data = << <<"annotation[source]", op.items[j].source>>,
                                 <<"annotation[key]", op.items[j].key>>,
                                 <<"annotation[value]", op.items[j].value>> >>
             /\ PostFails(log[j].resp) =>
                  /\ j = Len(log)
                  /\ pc = "idle"
                  /\ outcome.kind = "raise"
                  /\ outcome.error = IF log[j].resp.kind = "error"
                                     THEN "ConnectionError" ELSE "HTTPError"
                  /\ outcome.status = log[j].resp.status

C6_Witness ==
    /\ pc = "idle"
    /\ op.name = "add_annotations"
    /\ Len(op.items) = 3
    /\ Len(log) = 2
    /\ ~PostFails(log[1].resp)
    /\ PostFails(log[2].resp)
    /\ outcome.kind = "raise"

\* C7 (as stated): between operations no file object opened by the client
\* is still open.
C7_NoHandleOutlivesItsOperation ==
    pc = "idle" => (handles.scoped = 0 /\ handles.leaked = 0)

\* C8 (as stated): an operation that has ended issued one request and no
\* more, except delete_annotation: one listing GET, then at most one DELETE
\* for each listed annotation (stated as an upper bound, so that only a
\* second request refutes it).
C8_OneRequestPerOperation ==
    (pc = "idle" /\ Called) =>
        IF op.name = "delete_annotation"
        THEN /\ Len(log) >= 1
             /\ log[1].method = "GET"
             /\ \A j \in 2..Len(log) : log[j].method = "DELETE"
             /\ Len(log) - 1 <= Len(log[1].resp.body)
        ELSE Len(log) <= 1

\* C8 (amended): each of the eight single-request operations issues at most
\* one request, and exactly one unless its local file could not be opened;
\* download_results issues the job GET and at most one media GET; results the
\* job GET and at most one media GET for each session-metrics representation;
\* add_annotations at most one POST for each item; delete_annotation the
\* listing GET and at most one DELETE for each listed annotation.
C8_RequestsPerOperation ==
    Called =>
        /\ op.name \in SingleRequestOps =>
             /\ Len(log) <= 1
             /\ (pc = "idle" /\ outcome.error # "IOError") => Len(log) = 1
        /\ op.name = "download_results" =>
             /\ Len(log) \in 1..2
             /\ log[1].method = "GET" /\ log[1].url = JOB_URL
             /\ \A j \in 2..Len(log) : log[j].method = "GET" /\ log[j].url # JOB_URL
        /\ op.name = "results" =>
             /\ Len(log) >= 1
             /\ log[1].method = "GET" /\ log[1].url = JOB_URL
             /\ \A j \in 2..Len(log) : log[j].method = "GET" /\ log[j].url # JOB_URL
             /\ Len(log) - 1 <= Len(PositionsOf(log[1].resp.body, SESSION_CONTENT_TYPE, 1))
        /\ op.name = "add_annotations" =>
             /\ Len(log) <= Len(op.items)
             /\ \A j \in 1..Len(log) : log[j].method = "POST"
        /\ op.name = "delete_annotation" =>
             /\ Len(log) >= 1
             /\ log[1].method = "GET"
             /\ \A j \in 2..Len(log) : log[j].method = "DELETE"
             /\ Len(log) - 1 <= Len(log[1].resp.body)

C8_Witness ==
    /\ pc = "idle"
    /\ op.name = "download_results"
    /\ outcome.kind = "return"
    /\ Len(log) = 2

\* the j-th request of the call is the GET of a representation's media
MediaGet(j) ==
    /\ log[j].method = "GET"
    /\ \/ op.name = "download_representation"
       \/ op.name \in {"download_results", "results"} /\ j >= 2

\* C9 (as stated): every request of a call after construction carries the
\* resolved credentials, and every one that is not a multipart upload carries
\* Accept: application/json.
C9_AuthAndAcceptEverywhere ==
    Called =>
        \A j \in 1..Len(log) :
            /\ log[j].auth = auth
            /\ ~log[j].multipart => log[j].accept = ACCEPT_JSON

\* C9 (amended): every request of a call after construction carries the
\* resolved credentials; every one but the media GETs of
\* download_representation and results carries Accept: application/json, the
\* multipart uploads too, and those media GETs go out without it.
C9_AuthEverywhereAcceptButMedia ==
    Called =>
        \A j \in 1..Len(log) :
            /\ log[j].auth = auth
            /\ log[j].auth[1] # None /\ log[j].auth[2] # None
            /\ log[j].accept = IF MediaGet(j) THEN DEFAULT_ACCEPT ELSE ACCEPT_JSON

C9_Witness ==
    /\ pc = "idle"
    /\ op.name = "results"
    /\ Len(log) = 2
    /\ log[1].accept = ACCEPT_JSON
    /\ log[2].accept = DEFAULT_ACCEPT
    /\ log[2].auth = <<Str("u"), Str("u")>>

Downloading == op.name \in {"download_representation", "download_results"}
\* the requests a download has issued before the media GET
BeforeMedia == IF op.name = "download_results" THEN 1 ELSE 0

\* C10: in a download the file is opened before the media GET: while the GET
\* is outstanding the file exists and is empty; a failed open ends the call
\* with no media GET; when the GET fails or is answered with an error status
\* the call has raised and the file exists and is empty.
C10_FileTruncatedBeforeGet ==
    Downloading =>
        /\ pc = "download_get" =>
             /\ fs[op.rep.file_name] = File(<<>>)
             /\ Len(log) = BeforeMedia
        /\ (pc = "idle" /\ outcome.error = "IOError") => Len(log) = BeforeMedia
        /\ (pc = "idle" /\ Len(log) > BeforeMedia /\ PostFails(LastResp)) =>
             /\ outcome.kind = "raise"
             /\ fs[op.rep.file_name] = File(<<>>)

C10_Witness ==
    /\ pc = "idle"
    /\ op.name = "download_representation"
    /\ op.rep.file_name = "f1"
    /\ Len(log) = 1
    /\ LastResp.status = 500
    /\ outcome.kind = "raise"
    /\ fs["f1"] = File(<<>>)

====
